---------------------------- MODULE Spec2Model ----------------------------
(***************************************************************************)
(* Model of src/main.py: the article extraction of                         *)
(* GrokipediaSeleniumScraper._scrape_article_page (title lookup, element   *)
(* classification, section grouping, fallback tiers, metadata, reference   *)
(* collection, section-title post-processing, result assembly) and of the  *)
(* module-level format_content_with_sections, and the /scrape handler      *)
(* scrape_grokipedia with the scraper's constructor and close().           *)
(*                                                                         *)
(* A text is a sequence of one-character strings.  The page the browser    *)
(* shows is the environment: its elements, their texts and its links are   *)
(* drawn from small sets, and a driver call that may raise is a choice     *)
(* between its result and the exception.  The counters section_count and   *)
(* paragraph_count, which are only printed, are left out; log keeps the    *)
(* fallback tiers entered (the code prints a message on entering each) and *)
(* the failures of the driver calls inside them.                           *)
(***************************************************************************)
EXTENDS Integers, Sequences, FiniteSets, TLC

VARIABLES
    pc,                 \* position in _scrape_article_page / the loops
    title_lookups,      \* page: what each title selector finds
    container_elems,    \* page: the h1..h6 / p elements of the content container
    title,              \* local title
    all_elements,       \* local all_elements
    elements_data,      \* local elements_data (first pass output)
    elem_i,             \* loop index of the second pass (1-based)
    current_section,    \* local current_section
    structured_content, \* local structured_content
    all_text_parts,     \* local all_text_parts
    content_text,       \* local content_text
    log,                \* the fallback tiers entered and their failures
    word_count,         \* local word_count
    char_count,         \* local char_count
    links,              \* page: href of every a[href^='http'], in order
    ref_i,              \* loop index over ref_elements (1-based)
    seen_urls,          \* local seen_urls
    references,         \* local references
    section_titles,     \* local section_titles
    fmt_content_text,   \* format_content_with_sections: argument
    fmt_section_titles, \* format_content_with_sections: argument
    formatted_parts,    \* format_content_with_sections: local
    fmt_return,         \* format_content_with_sections: returned string
    exc,                \* the exception the outer handler caught (e)
    result,             \* what _scrape_article_page returned
    returned,           \* what search_and_scrape handed to its caller (data)
    query,              \* /scrape: request.query
    headless,           \* /scrape: request.headless
    scraper,            \* /scrape: local scraper (None until constructed)
    browser,            \* the Chrome process: "none", "open" or "closed"
    close_calls,        \* how many times scraper.close() was called
    pending,            \* /scrape: the return value or exception on its way out
    response            \* what left the /scrape handler

vars == << pc, title_lookups, container_elems, title,
           all_elements, elements_data, elem_i, current_section,
           structured_content, all_text_parts, content_text, log,
           word_count, char_count, links, ref_i, seen_urls, references,
           section_titles, fmt_content_text, fmt_section_titles,
           formatted_parts, fmt_return, exc, result, returned,
           query, headless, scraper, browser, close_calls, pending, response >>

-----------------------------------------------------------------------------
(* Bounds of the model.                                                    *)

\* longest element list of a page's container
MaxElems == 4
\* longest text handed to the formatter on its own
MaxText == 5
\* longest query of a request
MaxQuery == 2
\* longest title list handed to the formatter on its own
MaxTitles == 2
\* longest link list enumerated exhaustively
MaxShortLinks == 3
\* length of the long, patterned link lists
MaxLongLinks == 150

-----------------------------------------------------------------------------
(* Text primitives (Python str).                                           *)

NL == "\n"

Rep(c, n) == [k \in 1..n |-> c]

\* str.strip() strips whitespace
IsSpace(c) == c \in {" ", NL, "\t"}

RECURSIVE LStrip(_)
LStrip(s) == IF s = << >> \/ ~IsSpace(Head(s)) THEN s ELSE LStrip(Tail(s))

RECURSIVE RStrip(_)
RStrip(s) ==
    IF s = << >> \/ ~IsSpace(s[Len(s)]) THEN s
    ELSE RStrip(SubSeq(s, 1, Len(s) - 1))

Strip(s) == RStrip(LStrip(s))

StartsWith(s, t) == Len(t) <= Len(s) /\ SubSeq(s, 1, Len(t)) = t

\* sep.join(parts)
RECURSIVE Join(_, _)
Join(parts, sep) ==
    IF parts = << >> THEN << >>
    ELSE IF Len(parts) = 1 THEN parts[1]
    ELSE parts[1] \o sep \o Join(Tail(parts), sep)

\* the n-th member of a set of positions, in ascending order
Nth(S, n) == CHOOSE k \in S : Cardinality({ j \in S : j < k }) = n - 1

\* s.split('\n'): the pieces between the newlines, "" giving [""]
SplitLines(s) ==
    LET breaks == { k \in 1..Len(s) : s[k] = NL }
        n == Cardinality(breaks)
        first(i) == IF i = 1 THEN 1 ELSE Nth(breaks, i - 1) + 1
        last(i) == IF i = n + 1 THEN Len(s) ELSE Nth(breaks, i) - 1
    IN  [i \in 1..(n + 1) |-> SubSeq(s, first(i), last(i))]

\* len(s.split()): the number of maximal runs of non-whitespace
WordCount(s) ==
    Cardinality({k \in 1..Len(s) :
                    ~IsSpace(s[k]) /\ (k = 1 \/ IsSpace(s[k - 1]))})

IsNL(s, k) == k >= 1 /\ k <= Len(s) /\ s[k] = NL

\* a clean-up that was left out
CollapseNothing(s) == s

\* re.sub(r'\n{4,}', '\n\n', s): of every maximal run of 4 or more
\* newlines the first two are kept
CollapseDrops(s, k) ==
    /\ IsNL(s, k) /\ IsNL(s, k - 1) /\ IsNL(s, k - 2)
    /\ (IsNL(s, k - 3) \/ IsNL(s, k + 1))

CollapseNewlines(s) ==
    LET marked == [k \in 1..Len(s) |-> << s[k], CollapseDrops(s, k) >>]
        kept   == SelectSeq(marked, LAMBDA m : ~m[2])
    IN  [k \in 1..Len(kept) |-> kept[k][1]]

\* '=' * 70
RuleWidth == 70
Rule == Rep("=", RuleWidth)

\* f"\n\n{'='*70}\n{title}\n{'='*70}\n\n"
DelimiterBlock(t) ==
    << NL, NL >> \o Rule \o << NL >> \o t \o << NL >> \o Rule \o << NL, NL >>

-----------------------------------------------------------------------------
(* format_content_with_sections                                            *)

\* a title search without the break: the last matching title wins
RECURSIVE MatchLastTitle(_, _, _)
MatchLastTitle(line_stripped, titles, k) ==
    IF k > Len(titles) THEN 0
    ELSE LET later == MatchLastTitle(line_stripped, titles, k + 1)
         IN  IF later > 0 THEN later
             ELSE IF line_stripped = titles[k]
                     \/ StartsWith(line_stripped, titles[k])
                  THEN k
                  ELSE 0

\* the inner "for title in section_titles" with its break: the index of the
\* first title the stripped line equals or starts with, 0 when none
RECURSIVE MatchTitle(_, _, _)
MatchTitle(line_stripped, titles, k) ==
    IF k > Len(titles) THEN 0
    ELSE IF line_stripped = titles[k] \/ StartsWith(line_stripped, titles[k])
         THEN k
         ELSE MatchTitle(line_stripped, titles, k + 1)

\* one iteration of "for i, line in enumerate(lines)"
FormatLine(parts, line, titles) ==
    LET line_stripped == Strip(line)
        m == MatchTitle(line_stripped, titles, 1)
    IN  IF m > 0 THEN Append(parts, DelimiterBlock(titles[m]))
        ELSE IF line_stripped # << >> THEN Append(parts, line)
        ELSE parts

RECURSIVE FormatLines(_, _, _, _)
FormatLines(parts, lines, n, titles) ==
    IF n > Len(lines) THEN parts
    ELSE FormatLines(FormatLine(parts, lines[n], titles), lines, n + 1, titles)

\* formatted_parts as it stands after the loop
FormattedParts(text, titles) == FormatLines(<< >>, SplitLines(text), 1, titles)

\* line 33: "if not section_titles or not content_text"
EarlyReturn(text, titles) == titles = << >> \/ text = << >>

format_content_with_sections(text, titles) ==
    IF EarlyReturn(text, titles) THEN text
    ELSE CollapseNewlines(Join(FormattedParts(text, titles), << NL >>))

-----------------------------------------------------------------------------
(* The page: element texts, elements, title lookups, rendered text, links.  *)

T_Overview == << "O", "v", "e", "r", "v", "i", "e", "w" >>
T_History == << "H", "i", "s", "t", "o", "r", "y" >>
Sentence(n) == Join([k \in 1..n |-> << "t", "e", "x", "t" >>], << " " >>)
\* paragraphs of exactly 20, 21 and 60 characters
P_20 == Sentence(4) \o << "." >>
P_21 == Sentence(4) \o << "!", "?" >>
P_60 == Sentence(12) \o << "." >>

Elem(tag, text) == [tag |-> tag, text |-> text]

ElemKinds ==
    { Elem(<< "h", "1" >>, T_Overview), Elem(<< "h", "2" >>, T_History),
      Elem(<< "p" >>, P_20), Elem(<< "p" >>, P_21), Elem(<< "p" >>, P_60) }

SeqsUpTo(S, n) == UNION { [1..k -> S] : k \in 0..n }

\* the results of find_elements("h1, h2, h3, h4, h5, h6, p") on the container
ElementLists == SeqsUpTo(ElemKinds, MaxElems)

\* what the document-wide search finds when the container holds no element
OutsideElementLists ==
    { << >>, << Elem(<< "h", "1" >>, T_Overview), Elem(<< "p" >>, P_60) >> }

\* find_element raised NoSuchElementException
NoSuchElement == << "NoSuchElementException" >>

\* per title selector ("h1", "h1.text-3xl", "h1.font-bold"): the text of the
\* element found, or NoSuchElement
TitleLookups ==
    { << NoSuchElement, NoSuchElement, NoSuchElement >>,
      << << " " >>, NoSuchElement, T_Overview >> }

TitleNotFound ==
    << "T", "i", "t", "l", "e", " ", "n", "o", "t", " ", "f", "o", "u", "n", "d" >>

PageUrl == << "u", "r", "l" >>

\* WebElement.text of a block of elements: the non-empty texts, one per line
Rendered(elems) ==
    Join(SelectSeq([k \in 1..Len(elems) |-> Strip(elems[k].text)],
                   LAMBDA t : t # << >>),
         << NL >>)

Chrome == << "M", "e", "n", "u" >>

\* body.text: the page chrome, then the document's elements
BodyText(elems) ==
    IF Rendered(elems) = << >> THEN Chrome
    ELSE Chrome \o << NL >> \o Rendered(elems)

\* content_container.text
ContainerText(elems) == Rendered(elems)

\* a URL is a sequence of tokens; it contains the site's name when one of
\* its tokens is that name
SiteToken == "grokipedia.com"
ExtUrl(n) == << "https://example.org/", ToString(n) >>
SiteUrl(n) == << "https://", SiteToken, "/page/", ToString(n) >>
\* an external URL that carries the site's name in its query
RefUrl(n) == << "https://example.org/?from=", SiteToken, ToString(n) >>

\* link lists of the page in the full extraction
PageLinks == { << SiteUrl(1), ExtUrl(1) >> }

-----------------------------------------------------------------------------
(* _scrape_article_page: the pure parts                                     *)

None == << "None" >>

\* Python truthiness of a str-or-None
Truthy(t) == t # None /\ t # << >>

\* lines 214-225: the first selector whose element has non-blank text
RECURSIVE FindTitle(_, _)
FindTitle(lookups, k) ==
    IF k > Len(lookups) THEN TitleNotFound
    ELSE IF lookups[k] # NoSuchElement /\ Strip(lookups[k]) # << >>
         THEN Strip(lookups[k])
         ELSE FindTitle(lookups, k + 1)

MinTextLen == 3
MinParagraphLen == 20

DigitValue(c) ==
    CASE c = "1" -> 1 [] c = "2" -> 2 [] c = "3" -> 3
      [] c = "4" -> 4 [] c = "5" -> 5 [] c = "6" -> 6

\* lines 277-299: one iteration of the first pass; idx is the 0-based index
ClassifyElement(data, element, idx) ==
    LET tag_name == element.tag
        text == Strip(element.text)
    IN  IF text = << >> \/ Len(text) < MinTextLen THEN data
        ELSE IF Head(tag_name) = "h"
             THEN Append(data, [type |-> "heading", text |-> text,
                                level |-> DigitValue(tag_name[2]),
                                index |-> idx])
        ELSE IF tag_name = << "p" >> /\ Len(text) > MinParagraphLen
             THEN Append(data, [type |-> "paragraph", text |-> text,
                                index |-> idx])
        ELSE data

RECURSIVE ClassifyFrom(_, _, _)
ClassifyFrom(data, elems, k) ==
    IF k > Len(elems) THEN data
    ELSE ClassifyFrom(ClassifyElement(data, elems[k], k - 1), elems, k + 1)

\* lines 275-302
FirstPassData(elems) == ClassifyFrom(<< >>, elems, 1)

\* lines 265-269
EmptySection == [title |-> None, level |-> 0, content |-> << >>]

\* a seal test that forgets the paragraph list
ShouldSealTitleOnly(sec) == Truthy(sec.title)

\* lines 308 and 333: "if current_section['title'] and current_section['content']"
ShouldSeal(sec) == Truthy(sec.title) /\ sec.content # << >>

\* a sealed section that adds its title and paragraphs without the rules
SectionPartsBare(sec) ==
    << sec.title \o << NL >>, Join(sec.content, << NL, NL >>) >>

\* lines 313-316 and 336-339: the four pieces a sealed section adds
SectionParts(sec) ==
    << << NL, NL >> \o Rule \o << NL >>,
       sec.title \o << NL >>,
       Rule \o << NL, NL >>,
       Join(sec.content, << NL, NL >>) >>

\* a collection that stops after the first paragraph
CollectFirstParagraph(data, j) ==
    IF j <= Len(data) /\ data[j].type = "paragraph"
    THEN << data[j].text >>
    ELSE << >>

\* lines 326-330: the paragraphs from position j up to the next heading
RECURSIVE CollectParagraphs(_, _)
CollectParagraphs(data, j) ==
    IF j <= Len(data) /\ data[j].type = "paragraph"
    THEN << data[j].text >> \o CollectParagraphs(data, j + 1)
    ELSE << >>

\* an opening that puts the paragraphs before the first heading into its
\* section
OpenSectionWithPreamble(data, k) ==
    [title |-> data[k].text, level |-> data[k].level,
     content |->
        (IF \A h \in 1..(k - 1) : data[h].type = "paragraph"
         THEN [m \in 1..(k - 1) |-> data[m].text] ELSE << >>)
        \o CollectParagraphs(data, k + 1)]

\* lines 319-330: the section a heading at position k opens
OpenSection(data, k) ==
    [title |-> data[k].text, level |-> data[k].level,
     content |-> CollectParagraphs(data, k + 1)]

StructuredMin == 100
ParagraphsMin == 50

\* a sufficiency test that forgets the length
InsufficientWhenEmpty(text, n) == text = << >>

\* lines 347 and 366: "not content_text or len(content_text) < n"
Insufficient(text, n) == text = << >> \/ Len(text) < n

\* lines 351-357: the stripped texts of the container's p elements longer
\* than 20 characters
ParagraphTexts(elems) ==
    SelectSeq([k \in 1..Len(elems) |->
                  IF elems[k].tag = << "p" >> THEN Strip(elems[k].text)
                  ELSE << >>],
              LAMBDA t : t # << >> /\ Len(t) > MinParagraphLen)

RefCap == 100

\* 'grokipedia.com' in href
ContainsSite(href) == \E k \in 1..Len(href) : href[k] = SiteToken

\* an acceptance test that forgets the urls already seen
RefAcceptedAgain(href, seen) == href # << >> /\ ~ContainsSite(href)

\* line 391
RefAccepted(href, seen) ==
    href # << >> /\ ~ContainsSite(href) /\ href \notin seen

TitleMin == 2

\* line 416
TitleKept(heading_text, doc_title) ==
    /\ heading_text # << >>
    /\ Len(heading_text) > TitleMin
    /\ heading_text # doc_title

\* lines 413-417: the kept heading texts of the container, in order
HeadingTitles(elems, doc_title) ==
    SelectSeq([k \in 1..Len(elems) |->
                  IF Head(elems[k].tag) = "h" THEN Strip(elems[k].text)
                  ELSE << >>],
              LAMBDA t : TitleKept(t, doc_title))

\* a test that takes the structure for missing whatever it holds
NoStructureAssumed(sections) == TRUE

\* lines 409 and 425: "not structured_content or len(structured_content) == 0"
NoStructure(sections) == sections = << >>

\* lines 441-442: "x if x else None"
Optional(list) ==
    IF list # << >> THEN [present |-> TRUE, value |-> list]
    ELSE [present |-> FALSE, value |-> << >>]

ErrorPrefix ==
    << "F", "a", "i", "l", "e", "d", " ", "t", "o", " ", "s", "c", "r", "a",
       "p", "e", " ", "a", "r", "t", "i", "c", "l", "e", ":", " " >>

\* str(e) of a driver exception
DriverMessages == { << "s", "e", "s", "s", "i", "o", "n", " ", "l", "o", "s", "t" >> }

\* line 447
ErrorResult(msg) == [error |-> ErrorPrefix \o msg]

NoResult == [pending |-> TRUE]

-----------------------------------------------------------------------------
(* _scrape_article_page, step by step                                       *)

PageDefault ==
    /\ title_lookups = << NoSuchElement, NoSuchElement, NoSuchElement >>
    /\ container_elems = << >>

ScrapeLocals0 ==
    /\ title = << >>
    /\ all_elements = << >>
    /\ elements_data = << >>
    /\ elem_i = 1
    /\ current_section = EmptySection
    /\ structured_content = << >>
    /\ all_text_parts = << >>
    /\ content_text = << >>
    /\ log = << >>
    /\ word_count = 0
    /\ char_count = 0
    /\ section_titles = << >>
    /\ exc = None
    /\ result = NoResult
    /\ returned = NoResult

RefLocals0 ==
    /\ ref_i = 1
    /\ seen_urls = {}
    /\ references = << >>

FmtLocals0 ==
    /\ formatted_parts = << >>
    /\ fmt_return = << >>

\* line 490: scraper = None
NoScraper == [none |-> TRUE]

\* nothing of the /scrape handler has run
EndpointLocals0 ==
    /\ scraper = NoScraper
    /\ browser = "none"
    /\ close_calls = 0
    /\ pending = NoResult
    /\ response = NoResult

\* no request is being served
NoRequest ==
    /\ query = << >>
    /\ headless = TRUE
    /\ EndpointLocals0

Init ==
    /\ pc = "title"
    /\ title_lookups \in TitleLookups
    /\ container_elems \in ElementLists
    /\ ScrapeLocals0
    /\ links = << >>
    /\ RefLocals0
    /\ fmt_content_text = << >>
    /\ fmt_section_titles = << >>
    /\ FmtLocals0
    /\ NoRequest

page == << title_lookups, container_elems >>
grouper == << elements_data, elem_i, current_section, structured_content,
              all_text_parts >>
counts == << word_count, char_count >>
refs == << links, ref_i, seen_urls, references >>
fmt == << fmt_content_text, fmt_section_titles, formatted_parts, fmt_return >>
endpoint == << query, headless, scraper, browser, close_calls, pending,
               response >>

\* lines 445-447: an exception no inner handler catches
Fail(msg) ==
    /\ pc' = "done"
    /\ exc' = msg
    /\ result' = ErrorResult(exc')

\* lines 213-227
GetTitle ==
    /\ pc = "title"
    /\ title' = FindTitle(title_lookups, 1)
    /\ pc' = "elements"
    /\ UNCHANGED << endpoint, page, all_elements, grouper, content_text, log, counts,
                    refs, section_titles, fmt, exc, result, returned >>

\* lines 229-263: the elements of the content container, the document's
\* when it holds none; the driver may raise
FindElements ==
    /\ pc = "elements"
    /\ \/ /\ \E found \in (IF container_elems = << >>
                           THEN OutsideElementLists ELSE { container_elems }) :
                all_elements' = found
          /\ pc' = "first_pass"
          /\ UNCHANGED << exc, result >>
       \/ /\ \E msg \in DriverMessages : Fail(msg)
          /\ UNCHANGED all_elements
    /\ UNCHANGED << endpoint, page, title, grouper, content_text, log, counts, refs,
                    section_titles, fmt, returned >>

\* lines 274-302
FirstPass ==
    /\ pc = "first_pass"
    /\ elements_data' = FirstPassData(all_elements)
    /\ pc' = "second_pass"
    /\ UNCHANGED << endpoint, page, title, all_elements, elem_i, current_section,
                    structured_content, all_text_parts, content_text, log,
                    counts, refs, section_titles, fmt, exc, result, returned >>

\* lines 305-330: one iteration of the second pass
SecondPassStep ==
    /\ pc = "second_pass"
    /\ elem_i <= Len(elements_data)
    /\ IF elements_data[elem_i].type = "heading"
       THEN /\ IF ShouldSeal(current_section)
               THEN /\ structured_content' =
                          Append(structured_content, current_section)
                    /\ all_text_parts' =
                          all_text_parts \o SectionParts(current_section)
               ELSE UNCHANGED << structured_content, all_text_parts >>
            /\ current_section' = OpenSection(elements_data, elem_i)
       ELSE UNCHANGED << current_section, structured_content, all_text_parts >>
    /\ elem_i' = elem_i + 1
    /\ UNCHANGED << pc, endpoint, page, title, all_elements, elements_data, content_text,
                    log, counts, refs, section_titles, fmt, exc, result,
                    returned >>

\* lines 332-344: the last section, then content_text
SealLast ==
    /\ pc = "second_pass"
    /\ elem_i > Len(elements_data)
    /\ IF ShouldSeal(current_section)
       THEN /\ structured_content' =
                  Append(structured_content, current_section)
            /\ all_text_parts' =
                  all_text_parts \o SectionParts(current_section)
       ELSE UNCHANGED << structured_content, all_text_parts >>
    /\ content_text' = Join(all_text_parts', << >>)
    /\ pc' = "paragraphs"
    /\ UNCHANGED << endpoint, page, title, all_elements, elements_data, elem_i,
                    current_section, log, counts, refs, section_titles, fmt,
                    exc, result, returned >>

\* lines 346-363: the paragraph fallback; find_elements may raise
ParagraphFallback ==
    /\ pc = "paragraphs"
    /\ IF Insufficient(content_text, StructuredMin)
       THEN \/ LET texts == ParagraphTexts(container_elems)
               IN  /\ content_text' =
                         IF texts # << >> THEN Join(texts, << NL, NL >>)
                         ELSE content_text
                   /\ log' = Append(log, "paragraphs")
            \/ /\ log' = log \o << "paragraphs", "paragraphs_failed" >>
               /\ UNCHANGED content_text
       ELSE UNCHANGED << content_text, log >>
    /\ pc' = "visible_text"
    /\ UNCHANGED << endpoint, page, title, all_elements, grouper, counts, refs,
                    section_titles, fmt, exc, result, returned >>

\* lines 365-374: the container's text; when reading it raises, the body's,
\* and reading that may raise too
VisibleTextFallback ==
    /\ pc = "visible_text"
    /\ IF Insufficient(content_text, ParagraphsMin)
       THEN \/ /\ content_text' = ContainerText(container_elems)
               /\ log' = Append(log, "visible_text")
               /\ pc' = "metadata"
               /\ UNCHANGED << exc, result >>
            \/ /\ content_text' = BodyText(all_elements)
               /\ log' = log \o << "visible_text", "container_text_failed" >>
               /\ pc' = "metadata"
               /\ UNCHANGED << exc, result >>
            \/ /\ \E msg \in DriverMessages : Fail(msg)
               /\ log' = log \o << "visible_text", "container_text_failed" >>
               /\ UNCHANGED content_text
       ELSE /\ pc' = "metadata"
            /\ UNCHANGED << content_text, log, exc, result >>
    /\ UNCHANGED << endpoint, page, title, all_elements, grouper, counts, refs,
                    section_titles, fmt, returned >>

\* lines 376-378
Metadata ==
    /\ pc = "metadata"
    /\ word_count' = WordCount(content_text)
    /\ char_count' = Len(content_text)
    /\ pc' = "references"
    /\ UNCHANGED << endpoint, page, title, all_elements, grouper, content_text, log,
                    refs, section_titles, fmt, exc, result, returned >>

\* lines 383-386: the links of the page; find_elements may raise (line 404)
FindLinks ==
    /\ pc = "references"
    /\ \/ /\ \E l \in PageLinks : links' = l
          /\ pc' = "ref_loop"
       \/ /\ pc' = "titles"
          /\ UNCHANGED links
    /\ UNCHANGED << endpoint, page, title, all_elements, grouper, content_text, log,
                    counts, ref_i, seen_urls, references, section_titles, fmt,
                    exc, result, returned >>

\* lines 388-401: one iteration over ref_elements, with its break
RefLoopStep ==
    /\ pc = "ref_loop"
    /\ ref_i <= Len(links)
    /\ LET href == links[ref_i]
       IN  IF RefAccepted(href, seen_urls)
           THEN /\ seen_urls' = seen_urls \cup { href }
                /\ references' =
                      Append(references,
                             [number |-> Len(references) + 1, url |-> href])
                /\ pc' = IF Len(references') >= RefCap THEN "titles"
                         ELSE "ref_loop"
           ELSE UNCHANGED << seen_urls, references, pc >>
    /\ ref_i' = ref_i + 1
    /\ UNCHANGED << endpoint, page, title, all_elements, grouper, content_text, log,
                    counts, links, section_titles, fmt, exc, result, returned >>

\* line 388: ref_elements is exhausted
RefLoopEnd ==
    /\ pc = "ref_loop"
    /\ ref_i > Len(links)
    /\ pc' = "titles"
    /\ UNCHANGED << endpoint, page, title, all_elements, grouper, content_text, log,
                    counts, refs, section_titles, fmt, exc, result, returned >>

\* lines 407-421: the heading titles, when no section was realized;
\* find_elements may raise
CollectTitles ==
    /\ pc = "titles"
    /\ IF NoStructure(structured_content)
       THEN \/ section_titles' = HeadingTitles(container_elems, title)
            \/ section_titles' = << >>
       ELSE section_titles' = << >>
    /\ pc' = "post"
    /\ UNCHANGED << endpoint, page, title, all_elements, grouper, content_text, log,
                    counts, refs, fmt, exc, result, returned >>

\* lines 433-443
SuccessResult ==
    [title |-> title, url |-> PageUrl, content_text |-> content_text',
     word_count |-> word_count', char_count |-> char_count',
     references_count |-> Len(references), references |-> references,
     structured_content |-> Optional(structured_content),
     section_titles |-> Optional(section_titles)]

\* lines 22-63: a call of format_content_with_sections
CallFormat(text, titles) ==
    /\ fmt_content_text' = text
    /\ fmt_section_titles' = titles
    /\ formatted_parts' =
          IF EarlyReturn(text, titles) THEN << >>
          ELSE FormattedParts(text, titles)
    /\ fmt_return' = format_content_with_sections(text, titles)

\* a post-processing that keeps the counts of the unformatted text
RecalculateSkipped == UNCHANGED << word_count, char_count >>

\* lines 428-430: the counts of the formatted text
Recalculate ==
    /\ word_count' = WordCount(content_text')
    /\ char_count' = Len(content_text')

\* lines 423-443: the post-processing and the returned dict
PostProcess ==
    /\ pc = "post"
    /\ IF section_titles # << >> /\ NoStructure(structured_content)
       THEN /\ CallFormat(content_text, section_titles)
            /\ content_text' = fmt_return'
            /\ Recalculate
       ELSE UNCHANGED << content_text, counts, fmt >>
    /\ result' = SuccessResult
    /\ pc' = "done"
    /\ UNCHANGED << endpoint, page, title, all_elements, grouper, log, refs,
                    section_titles, exc, returned >>

\* a hand-over that wraps an error once more
ReturnDataRewrapped ==
    /\ pc = "done"
    /\ returned' = IF "error" \in DOMAIN result
                   THEN [error |-> ErrorPrefix \o result.error] ELSE result
    /\ pc' = "returned"
    /\ UNCHANGED << endpoint, page, title, all_elements, grouper, content_text, log,
                    counts, refs, section_titles, fmt, exc, result >>

\* lines 197-199: search_and_scrape hands the dict on
ReturnData ==
    /\ pc = "done"
    /\ returned' = result
    /\ pc' = "returned"
    /\ UNCHANGED << endpoint, page, title, all_elements, grouper, content_text, log,
                    counts, refs, section_titles, fmt, exc, result >>

Next ==
    \/ GetTitle
    \/ FindElements
    \/ FirstPass
    \/ SecondPassStep
    \/ SealLast
    \/ ParagraphFallback
    \/ VisibleTextFallback
    \/ Metadata
    \/ FindLinks
    \/ RefLoopStep
    \/ RefLoopEnd
    \/ CollectTitles
    \/ PostProcess
    \/ ReturnData

Spec == Init /\ [][Next]_vars

-----------------------------------------------------------------------------
(* The reference collection on its own, over long link lists.              *)

LinkUrls == { ExtUrl(1), ExtUrl(2), SiteUrl(1), RefUrl(1), << >> }

\* MaxLongLinks links: all distinct, in descending numbering
DistinctLinks(n) == [k \in 1..n |-> ExtUrl(n + 1 - k)]

\* every third link repeats the first one
RepeatingLinks(n) ==
    [k \in 1..n |-> IF k % 3 = 0 THEN ExtUrl(1) ELSE ExtUrl(k)]

\* same-site links, links naming the site, and repeats among fresh ones
MixedLinks(n) ==
    [k \in 1..n |-> CASE k % 8 = 0 -> SiteUrl(k)
                      [] k % 8 = 4 -> RefUrl(k)
                      [] k % 8 = 6 -> ExtUrl(k - 1)
                      [] OTHER -> ExtUrl(k)]

LinkLists ==
    SeqsUpTo(LinkUrls, MaxShortLinks)
    \cup { DistinctLinks(n) : n \in { RefCap - 1, RefCap, MaxLongLinks } }
    \cup { RepeatingLinks(MaxLongLinks), MixedLinks(MaxLongLinks) }

InitRefs ==
    /\ pc = "ref_loop"
    /\ PageDefault
    /\ ScrapeLocals0
    /\ links \in LinkLists
    /\ RefLocals0
    /\ fmt_content_text = << >>
    /\ fmt_section_titles = << >>
    /\ FmtLocals0
    /\ NoRequest

NextRefs == RefLoopStep \/ RefLoopEnd

SpecRefs == InitRefs /\ [][NextRefs]_vars

-----------------------------------------------------------------------------
(* format_content_with_sections on its own, over all short texts.          *)

FmtAlphabet == { "a", "b", " ", NL }

FmtTexts == SeqsUpTo(FmtAlphabet, MaxText)

FmtTitles == { << "a" >>, << "a", "b" >> }

\* a title that holds a run of newlines
FmtBrokenTitle == << "b", NL, NL, NL, NL, "b" >>

FmtTitleLists ==
    SeqsUpTo(FmtTitles, MaxTitles)
    \cup { << FmtBrokenTitle >>, << << "a" >>, FmtBrokenTitle >> }

InitFmt ==
    /\ pc = "format"
    /\ PageDefault
    /\ ScrapeLocals0
    /\ links = << >>
    /\ RefLocals0
    /\ fmt_content_text \in FmtTexts
    /\ fmt_section_titles \in FmtTitleLists
    /\ FmtLocals0
    /\ NoRequest

FormatCall ==
    /\ pc = "format"
    /\ CallFormat(fmt_content_text, fmt_section_titles)
    /\ pc' = "formatted"
    /\ UNCHANGED << endpoint, page, title, all_elements, grouper, content_text, log,
                    counts, refs, section_titles, exc, result, returned >>

NextFmt == FormatCall

SpecFmt == InitFmt /\ [][NextFmt]_vars

-----------------------------------------------------------------------------
(* The /scrape handler, one request at a time.  Console output is taken to *)
(* succeed; a call into the driver may raise, and an interrupt may cut     *)
(* search_and_scrape short.                                                *)

QueryAlphabet == { "a", " " }

Queries == SeqsUpTo(QueryAlphabet, MaxQuery)

\* line 488
QueryCannotBeEmpty ==
    << "Q", "u", "e", "r", "y", " ", "c", "a", "n", "n", "o", "t", " ", "b",
       "e", " ", "e", "m", "p", "t", "y" >>

\* line 511
ScrapingFailed ==
    << "S", "c", "r", "a", "p", "i", "n", "g", " ", "f", "a", "i", "l", "e",
       "d", ":", " " >>

\* the exception that is no Exception: it passes every "except Exception"
Interrupt ==
    << "K", "e", "y", "b", "o", "a", "r", "d", "I", "n", "t", "e", "r", "r",
       "u", "p", "t" >>

\* datetime.now().isoformat()
Now == << "n", "o", "w" >>

\* HTTPException(status_code, detail) leaving the handler
HTTPException(code, detail) == [status_code |-> code, detail |-> detail]

\* any other exception leaving the handler
Raised(msg) == [raised |-> msg]

\* lines 502-506: the dict the handler returns
Returned(data, q) ==
    [body |-> [timestamp |-> Now, query |-> q] @@ data]

\* lines 433-443: a dict of _scrape_article_page for a page without links
PageResult(t, sections) ==
    LET text == Join([n \in 1..Len(sections) |->
                         Join(SectionParts(sections[n]), << >>)], << >>)
    IN  [title |-> t, url |-> PageUrl, content_text |-> text,
         word_count |-> WordCount(text), char_count |-> Len(text),
         references_count |-> 0, references |-> << >>,
         structured_content |-> Optional(sections),
         section_titles |-> Optional(<< >>)]

\* lines 195-199: what _scrape_article_page can hand to search_and_scrape
ArticleOutcomes ==
    { ErrorResult(msg) : msg \in DriverMessages }
    \cup { PageResult(TitleNotFound, << >>),
           PageResult(T_Overview,
                      << [title |-> T_Overview, level |-> 1,
                          content |-> << P_21 >>] >>) }

\* the variables of the extraction, which the handler does not touch
extraction == << page, title, all_elements, grouper, content_text, log,
                 counts, refs, section_titles, fmt, exc, result >>

InitScrape ==
    /\ pc = "request"
    /\ PageDefault
    /\ ScrapeLocals0
    /\ links = << >>
    /\ RefLocals0
    /\ fmt_content_text = << >>
    /\ fmt_section_titles = << >>
    /\ FmtLocals0
    /\ query \in Queries
    /\ headless \in BOOLEAN
    /\ EndpointLocals0

\* lines 487-489: a blank query is refused outside the try block
CheckQuery ==
    /\ pc = "request"
    /\ IF query = << >> \/ Strip(query) = << >>
       THEN /\ response' = HTTPException(400, QueryCannotBeEmpty)
            /\ pc' = "responded"
       ELSE /\ pc' = "construct"
            /\ UNCHANGED response
    /\ UNCHANGED << extraction, returned, query, headless, scraper, browser,
                    close_calls, pending >>

\* lines 496 and 69-89: the constructor starts Chrome and runs a script in
\* it; either call may raise, and then scraper stays None (lines 509-511)
Construct ==
    /\ pc = "construct"
    /\ \/ /\ scraper' = [driver |-> "chrome", headless |-> headless]
          /\ browser' = "open"
          /\ pc' = "scrape"
          /\ UNCHANGED pending
       \/ /\ \E msg \in DriverMessages :
                pending' = HTTPException(500, ScrapingFailed \o msg)
          /\ browser' \in { "none", "open" }
          /\ pc' = "finally"
          /\ UNCHANGED scraper
    /\ UNCHANGED << extraction, returned, query, headless, close_calls,
                    response >>

\* lines 497 and 101-203: search_and_scrape returns the dict of
\* _scrape_article_page, or the dict of its own handler; an interrupt is
\* caught by neither handler
SearchAndScrape ==
    /\ pc = "scrape"
    /\ \/ /\ returned' \in ArticleOutcomes
          /\ pc' = "check"
          /\ UNCHANGED pending
       \/ /\ \E msg \in DriverMessages : returned' = [error |-> msg]
          /\ pc' = "check"
          /\ UNCHANGED pending
       \/ /\ pending' = Raised(Interrupt)
          /\ pc' = "finally"
          /\ UNCHANGED returned
    /\ UNCHANGED << extraction, query, headless, scraper, browser, close_calls,
                    response >>

\* lines 499-508: an error dict becomes an HTTPException, which line 507
\* passes on; any other dict is returned with timestamp and query
CheckData ==
    /\ pc = "check"
    /\ pending' = IF "error" \in DOMAIN returned
                  THEN HTTPException(500, returned.error)
                  ELSE Returned(returned, query)
    /\ pc' = "finally"
    /\ UNCHANGED << extraction, returned, query, headless, scraper, browser,
                    close_calls, response >>

\* lines 449-452: close() quits the driver, which may raise
Close ==
    /\ close_calls' = close_calls + 1
    /\ \/ /\ browser' = "closed"
          /\ UNCHANGED pending
       \/ /\ \E msg \in DriverMessages : pending' = Raised(msg)
          /\ browser' \in { "open", "closed" }

\* a finally block that closes the browser only after a normal return
FinallyOnReturn ==
    /\ pc = "finally"
    /\ IF scraper # NoScraper /\ "body" \in DOMAIN pending
       THEN Close
       ELSE UNCHANGED << browser, close_calls, pending >>
    /\ pc' = "respond"
    /\ UNCHANGED << extraction, returned, query, headless, scraper, response >>

\* lines 513-516
Finally ==
    /\ pc = "finally"
    /\ IF scraper # NoScraper
       THEN Close
       ELSE UNCHANGED << browser, close_calls, pending >>
    /\ pc' = "respond"
    /\ UNCHANGED << extraction, returned, query, headless, scraper, response >>

\* the return value or the exception leaves the handler
Respond ==
    /\ pc = "respond"
    /\ response' = pending
    /\ pc' = "responded"
    /\ UNCHANGED << extraction, returned, query, headless, scraper, browser,
                    close_calls, pending >>

NextScrape ==
    \/ CheckQuery
    \/ Construct
    \/ SearchAndScrape
    \/ CheckData
    \/ Finally
    \/ Respond

SpecScrape == InitScrape /\ [][NextScrape]_vars

-----------------------------------------------------------------------------
(* Properties of the section grouping.                                     *)

IsError(r) == "error" \in DOMAIN r
IsSuccess(r) == "content_text" \in DOMAIN r

\* the second pass and the sealing of the last section are over
Grouped == pc \notin { "title", "elements", "first_pass", "second_pass" }

IsHeading(k) == elements_data[k].type = "heading"
IsParagraph(k) == elements_data[k].type = "paragraph"

\* the headings of elements_data directly followed by a paragraph
HeadingRuns ==
    { k \in 1..Len(elements_data) :
        IsHeading(k) /\ k < Len(elements_data) /\ IsParagraph(k + 1) }

\* how many paragraphs follow position k before the next heading or the end
RunLen(k) ==
    Cardinality({ j \in (k + 1)..Len(elements_data) :
                    \A m \in (k + 1)..j : IsParagraph(m) })

\* the Section the run of the heading at position k makes
RunSection(k) ==
    [title |-> elements_data[k].text, level |-> elements_data[k].level,
     content |-> [m \in 1..RunLen(k) |-> elements_data[k + m].text]]

\* C1: once the second pass is over, structured_content holds exactly one
\* Section per heading that is directly followed by a paragraph, in the
\* document order of the headings, each with the heading's title and level
\* and the paragraphs of its run in their original order.
C1_OneSectionPerRun ==
    Grouped =>
        /\ Len(structured_content) = Cardinality(HeadingRuns)
        /\ \A n \in 1..Len(structured_content) :
              structured_content[n] = RunSection(Nth(HeadingRuns, n))

\* two sections were realized, the first from a heading of level 1
C1_Witness ==
    /\ pc = "done"
    /\ IsSuccess(result)
    /\ Len(elements_data) = 4
    /\ Len(structured_content) = 2
    /\ structured_content[1].level = 1
    /\ structured_content[2].title = T_History

\* C2: no Section, in structured_content or in the returned result, has an
\* empty paragraph list, and there are never more Sections than headings
\* that have a paragraph right after them.
C2_NoEmptySection ==
    /\ \A n \in 1..Len(structured_content) :
          Len(structured_content[n].content) >= 1
    /\ Len(structured_content) <= Cardinality(HeadingRuns)
    /\ IsSuccess(result) =>
          \A n \in 1..Len(result.structured_content.value) :
              Len(result.structured_content.value[n].content) >= 1

\* two adjacent headings, a realized section, and a heading as last element
C2_Witness ==
    /\ pc = "done"
    /\ IsSuccess(result)
    /\ Len(elements_data) = 4
    /\ IsHeading(1) /\ IsHeading(2) /\ IsParagraph(3) /\ IsHeading(4)
    /\ Len(structured_content) = 1

\* the paragraphs of elements_data that come after the first heading
ParagraphsAfterFirstHeading ==
    LET headings == { k \in 1..Len(elements_data) : IsHeading(k) }
        texts == [k \in 1..Len(elements_data) |->
                    IF IsParagraph(k) /\ \E h \in headings : h < k
                    THEN elements_data[k].text ELSE None]
    IN  SelectSeq(texts, LAMBDA t : t # None)

RECURSIVE AllContent(_)
AllContent(sections) ==
    IF sections = << >> THEN << >>
    ELSE Head(sections).content \o AllContent(Tail(sections))

\* the flat text of a list of sections
FlatText(sections) ==
    Join([n \in 1..Len(sections) |->
             DelimiterBlock(sections[n].title)
             \o Join(sections[n].content, << NL, NL >>)],
         << >>)

\* C10: the paragraphs the Sections hold are, together and in order, exactly
\* the paragraphs that come after the first heading; every Section has a
\* title; and the Grouper's flat text is built from the Sections alone.
C10_PreambleDropped ==
    Grouped =>
        LET flat == FlatText(structured_content)
        IN  /\ AllContent(structured_content) = ParagraphsAfterFirstHeading
            /\ \A n \in 1..Len(structured_content) :
                  Truthy(structured_content[n].title)
            /\ Join(all_text_parts, << >>) = flat
            /\ pc = "paragraphs" => content_text = flat

\* a paragraph precedes the first heading and a section was realized
C10_Witness ==
    /\ pc = "paragraphs"
    /\ Len(elements_data) >= 3
    /\ IsParagraph(1) /\ IsHeading(2) /\ IsParagraph(3)
    /\ Len(structured_content) = 1
    /\ content_text # << >>

-----------------------------------------------------------------------------
(* Properties of the reference collection (checked under SpecRefs).        *)

\* the positions of links whose URL is non-empty, does not name the site
\* and occurs there for the first time
FreshLinks ==
    { k \in 1..Len(links) :
        /\ links[k] # << >>
        /\ \A t \in 1..Len(links[k]) : links[k][t] # SiteToken
        /\ \A j \in 1..(k - 1) : links[j] # links[k] }

Min(a, b) == IF a <= b THEN a ELSE b

\* C3: references has at most 100 entries, entry i is numbered i, no two
\* entries share a url, no url names the site, and once the loop is over the
\* urls are the first 100 (or all, if fewer) distinct external links in
\* first-seen order.
C3_References ==
    /\ Len(references) <= RefCap
    /\ \A i \in 1..Len(references) : references[i].number = i
    /\ \A i, j \in 1..Len(references) :
          i # j => references[i].url # references[j].url
    /\ \A i \in 1..Len(references) :
          \A t \in 1..Len(references[i].url) :
              references[i].url[t] # SiteToken
    /\ pc = "titles" =>
          LET fresh == FreshLinks
          IN  /\ Len(references) = Min(RefCap, Cardinality(fresh))
              /\ \A i \in 1..Len(references) :
                    references[i].url = links[Nth(fresh, i)]

\* 150 distinct external links: the loop broke off at the 100th
C3_Witness ==
    /\ pc = "titles"
    /\ links = DistinctLinks(MaxLongLinks)
    /\ Len(references) = RefCap
    /\ references[RefCap] = [number |-> RefCap, url |-> links[RefCap]]
    /\ ref_i <= Len(links)

-----------------------------------------------------------------------------
(* Properties of format_content_with_sections (checked under SpecFmt).     *)

\* s has 4 or more newlines in a row
HasNewlineRun(s) ==
    \E k \in 1..(Len(s) - 3) : \A d \in 0..3 : s[k + d] = NL

\* C4 as stated: whatever the arguments, the returned string has no run of
\* 4 or more newlines.
C4_NoNewlineRunEver ==
    pc = "formatted" => ~HasNewlineRun(fmt_return)

\* C4, amended: with a non-empty title list the returned string has no run
\* of 4 or more newlines; with an empty title list the text is returned as
\* it came.
C4_NoNewlineRunFormatted ==
    pc = "formatted" =>
        /\ fmt_section_titles # << >> => ~HasNewlineRun(fmt_return)
        /\ fmt_section_titles = << >> => fmt_return = fmt_content_text

\* two delimiter blocks met: the joined pieces had a run that was collapsed
C4_Witness ==
    /\ pc = "formatted"
    /\ fmt_section_titles # << >>
    /\ Len(formatted_parts) >= 2
    /\ HasNewlineRun(Join(formatted_parts, << NL >>))
    /\ ~HasNewlineRun(fmt_return)

FmtLinesIn == SplitLines(fmt_content_text)

\* title k matches the n-th input line
TitleMatches(n, k) ==
    LET trimmed == Strip(FmtLinesIn[n])
        t == fmt_section_titles[k]
    IN  trimmed = t
        \/ (Len(t) <= Len(trimmed) /\ \A c \in 1..Len(t) : trimmed[c] = t[c])

LineMatched(n) == \E k \in 1..Len(fmt_section_titles) : TitleMatches(n, k)

\* the piece the n-th input line gives
LinePiece(n) ==
    IF LineMatched(n)
    THEN LET first == CHOOSE k \in 1..Len(fmt_section_titles) :
                         /\ TitleMatches(n, k)
                         /\ \A j \in 1..(k - 1) : ~TitleMatches(n, j)
         IN  DelimiterBlock(fmt_section_titles[first])
    ELSE FmtLinesIn[n]

\* the input lines that give a piece: matched, or not blank
EmittingLines ==
    { n \in 1..Len(FmtLinesIn) :
        LineMatched(n) \/ \E c \in 1..Len(FmtLinesIn[n]) :
                             ~IsSpace(FmtLinesIn[n][c]) }

\* C9: for non-empty text and titles, the emitted pieces are, in order, the
\* pieces of the input lines that are matched or not blank: the delimiter
\* block of the first matching title for a matched line, the line itself
\* otherwise.
C9_LineRule ==
    (pc = "formatted" /\ fmt_content_text # << >> /\ fmt_section_titles # << >>)
        => /\ Len(formatted_parts) = Cardinality(EmittingLines)
           /\ \A i \in 1..Len(formatted_parts) :
                 formatted_parts[i] = LinePiece(Nth(EmittingLines, i))

\* three lines: one that starts with both titles and is replaced by the
\* block of the first, a blank one that is dropped, one passed through
C9_Witness ==
    /\ pc = "formatted"
    /\ fmt_section_titles = << << "a", "b" >>, << "a" >> >>
    /\ fmt_content_text = << "a", "b", NL, NL, "b" >>
    /\ formatted_parts = << DelimiterBlock(<< "a", "b" >>), << "b" >> >>

-----------------------------------------------------------------------------
(* Properties of the fallback tiers, the metadata and the result.          *)

Returning == pc \in { "done", "returned" }

\* the whitespace-delimited tokens of s, counted by the places where one ends
Tokens(s) ==
    LET blank(k) == s[k] \in { " ", NL, "\t" }
    IN  Cardinality({ k \in 1..Len(s) :
                        ~blank(k) /\ (k = Len(s) \/ blank(k + 1)) })

\* C5: a successful result's word_count is the number of whitespace-delimited
\* tokens of its content_text and its char_count is that text's length.
C5_CountsMatchText ==
    (Returning /\ IsSuccess(result)) =>
        /\ result.word_count = Tokens(result.content_text)
        /\ result.char_count = Len(result.content_text)

\* the Formatter rewrote content_text and both counts changed with it
C5_Witness ==
    /\ pc = "done"
    /\ IsSuccess(result)
    /\ fmt_section_titles # << >>
    /\ result.content_text = fmt_return
    /\ fmt_return # fmt_content_text
    /\ result.word_count # Tokens(fmt_content_text)
    /\ result.char_count # Len(fmt_content_text)

\* the heading texts of the container that can become section titles
TitleCandidates ==
    { k \in 1..Len(container_elems) :
        /\ container_elems[k].tag[1] = "h"
        /\ Len(Strip(container_elems[k].text)) > 2
        /\ Strip(container_elems[k].text) # title }

\* C6: in a successful result structured_content is present exactly when the
\* Grouper realized a Section; section_titles is present only when
\* structured_content is absent and a heading title longer than 2 characters
\* and different from the document title was collected; the two are never
\* both present.
C6_StructureOrTitles ==
    (Returning /\ IsSuccess(result)) =>
        /\ result.structured_content.present <=> HeadingRuns # {}
        /\ result.structured_content.present =>
              result.structured_content.value = structured_content
        /\ result.section_titles.present =>
              /\ ~result.structured_content.present
              /\ TitleCandidates # {}
              /\ result.section_titles.value =
                    [i \in 1..Cardinality(TitleCandidates) |->
                        Strip(container_elems[Nth(TitleCandidates, i)].text)]
        /\ ~(result.structured_content.present /\ result.section_titles.present)

\* headings were seen, none got a paragraph: section_titles is present, and
\* the heading that repeats the document title is not among them
C6_Witness ==
    /\ pc = "done"
    /\ IsSuccess(result)
    /\ title = T_Overview
    /\ Len(container_elems) = 3
    /\ Cardinality(TitleCandidates) = 1
    /\ result.section_titles.present
    /\ result.section_titles.value = << T_History >>
    /\ ~result.structured_content.present

InLog(x) == \E k \in 1..Len(log) : log[k] = x

\* the fallback tiers are over and the Formatter has not yet run
FallbackOver == pc \in { "metadata", "references", "ref_loop", "titles", "post" }

\* tier 1: the Grouper's flat text
StructuredTier == Join(all_text_parts, << >>)

\* tier 2: the container's paragraphs longer than 20 characters, joined by a
\* blank line
ParagraphTier ==
    LET kept == { k \in 1..Len(container_elems) :
                    /\ container_elems[k].tag = << "p" >>
                    /\ Len(Strip(container_elems[k].text)) > 20 }
    IN  Join([i \in 1..Cardinality(kept) |->
                 Strip(container_elems[Nth(kept, i)].text)],
             << NL, NL >>)

\* C7: before formatting, content_text is the output of the first tier that
\* clears its threshold, and no later tier was entered: the structured text
\* if it has at least 100 characters; else the paragraph list if it could be
\* read and has at least 50 characters; else the container's text, or the
\* body's text when reading the container's text failed.
C7_FirstSufficientTier ==
    FallbackOver =>
        LET structured == StructuredTier
            paragraphs == ParagraphTier
            t1 == structured # << >> /\ Len(structured) >= 100
            t2 == /\ ~InLog("paragraphs_failed")
                  /\ paragraphs # << >> /\ Len(paragraphs) >= 50
        IN  /\ t1 => content_text = structured /\ log = << >>
            /\ (~t1 /\ t2) =>
                  content_text = paragraphs /\ log = << "paragraphs" >>
            /\ (~t1 /\ ~t2) =>
                  /\ log[1] = "paragraphs"
                  /\ InLog("visible_text")
                  /\ content_text =
                        IF InLog("container_text_failed")
                        THEN BodyText(all_elements)
                        ELSE ContainerText(container_elems)
            /\ content_text = BodyText(all_elements) =>
                  InLog("container_text_failed")

\* no section, no paragraph long enough: the container's text is used
C7_Witness ==
    /\ pc = "metadata"
    /\ structured_content = << >>
    /\ ParagraphTier = << >>
    /\ Len(container_elems) = 2
    /\ log = << "paragraphs", "visible_text" >>
    /\ content_text = ContainerText(container_elems)
    /\ content_text # << >>

\* every tier was entered and left content_text empty, and no title was found
TerminalFailure ==
    /\ title = TitleNotFound
    /\ InLog("paragraphs") /\ InLog("visible_text")
    /\ content_text = << >>

\* C8 as stated: with no title and every tier exhausted without text the
\* outcome is an error.
C8_TerminalFailureIsError ==
    (Returning /\ TerminalFailure) => IsError(result)

\* C8, amended: the outcome is an error exactly when an exception escaped the
\* extraction, and then it carries that exception's message; with no title
\* and no text the result is a success with the placeholder title, empty
\* content_text and zero counts; the caller gets the outcome unchanged.
C8_ErrorOnlyOnException ==
    /\ Returning =>
          /\ IsError(result) <=> exc # None
          /\ IsError(result) => result = [error |-> ErrorPrefix \o exc]
          /\ ~IsError(result) => IsSuccess(result)
          /\ (TerminalFailure /\ exc = None) =>
                /\ result.title = TitleNotFound
                /\ result.content_text = << >>
                /\ result.word_count = 0 /\ result.char_count = 0
                /\ ~result.structured_content.present
    /\ pc = "returned" => returned = result

\* format_content_with_sections was never called
FormatterIdle ==
    /\ fmt_content_text = << >> /\ fmt_section_titles = << >>
    /\ formatted_parts = << >> /\ fmt_return = << >>

\* C11: when the Grouper realized a Section, every sealed section adds at
\* least 100 characters, the returned content_text is exactly the flat text
\* of structured_content, no fallback tier was entered and the Formatter was
\* not called; so a fallback tier or the Formatter acts only in runs whose
\* result has no structured_content.
C11_StructuredTextKept ==
    /\ \A n \in 1..Len(structured_content) :
          Len(Join(SectionParts(structured_content[n]), << >>)) >= StructuredMin
    /\ (Returning /\ IsSuccess(result) /\ structured_content # << >>) =>
          /\ result.content_text = FlatText(structured_content)
          /\ result.structured_content.value = structured_content
          /\ log = << >>
          /\ FormatterIdle
    /\ (Returning /\ IsSuccess(result) /\ (log # << >> \/ ~FormatterIdle)) =>
          ~result.structured_content.present
    /\ pc = "returned" => returned = result

\* one section was realized, a second heading could have served as a
\* section title, and the caller got the flat text of the one section
C11_Witness ==
    /\ pc = "returned"
    /\ IsSuccess(returned)
    /\ Len(structured_content) = 1
    /\ structured_content[1].content = << P_21 >>
    /\ TitleCandidates # {}
    /\ returned.content_text = FlatText(structured_content)
    /\ Len(returned.content_text) >= StructuredMin

\* no title, no text from any tier, no exception: the caller got a success
C8_Witness ==
    /\ pc = "returned"
    /\ TerminalFailure
    /\ exc = None
    /\ IsSuccess(returned)
    /\ returned.content_text = << >>

\* an exception escaped and the caller got its message
C8_ErrorWitness ==
    /\ pc = "returned"
    /\ IsError(returned)
    /\ InLog("container_text_failed")

-----------------------------------------------------------------------------
(* Properties of the /scrape handler (checked under SpecScrape).           *)

Blank(q) == \A k \in 1..Len(q) : IsSpace(q[k])

Constructed == scraper # NoScraper

\* the handler is past its finally block
PastFinally == pc \in { "respond", "responded" }

\* driver.quit() raised inside close()
QuitRaised == \E msg \in DriverMessages : pending = Raised(msg)

\* what the try block and its handlers send out before the finally block
Outcome ==
    IF returned = NoResult THEN Raised(Interrupt)
    ELSE IF IsError(returned) THEN HTTPException(500, returned.error)
    ELSE Returned(returned, query)

\* C12: a blank query is answered with HTTP 400 and no browser is ever
\* created for it; for a non-blank query whose scraper was constructed,
\* scraper.close() has been called exactly once by the time the finally
\* block is left and therefore before anything leaves the handler, nothing
\* leaves the handler earlier, and unless quit itself raised the browser is
\* closed and what leaves is the returned dict, HTTP 500 with the error
\* message as detail, or the unexpected exception.
C12_ClosedBeforeResponse ==
    /\ response # NoResult => pc = "responded"
    /\ Blank(query) =>
          /\ ~Constructed /\ browser = "none" /\ close_calls = 0
          /\ pc = "responded" =>
                response = HTTPException(400, QueryCannotBeEmpty)
    /\ close_calls = IF Constructed /\ PastFinally THEN 1 ELSE 0
    /\ (Constructed /\ PastFinally) =>
          /\ browser = "closed" \/ QuitRaised
          /\ ~QuitRaised => browser = "closed" /\ pending = Outcome
    /\ (Constructed /\ pc = "responded") => response = pending
    /\ (Constructed /\ IsSuccess(returned) /\ response = Outcome) =>
          /\ response.body.query = query
          /\ response.body.content_text = returned.content_text

\* search_and_scrape gave an error dict: the browser was closed once and
\* HTTP 500 with the error message left the handler
C12_Witness ==
    /\ pc = "responded"
    /\ Constructed
    /\ IsError(returned)
    /\ close_calls = 1
    /\ browser = "closed"
    /\ response = HTTPException(500, returned.error)
    /\ response.detail \in DriverMessages

=============================================================================
